---- MODULE Spec2Model ----
(***************************************************************************)
(* Model of src/consensus/params.h (huntercore): the fork-activation       *)
(* policy classes (ConsensusRules, MainNetConsensus, TestNetConsensus,     *)
(* RegTestConsensus) and the Consensus::Params aggregate, queried by       *)
(* reader threads.                                                         *)
(***************************************************************************)
EXTENDS Integers, Sequences, FiniteSets, TLC

VARIABLES
    phase,        \* "running", "aborted" (assert failed), "faulted" (trap)
    params,       \* the Consensus::Params object the node currently uses
    constructed,  \* history: the value params was given when it was constructed
    reconstructed,\* history: a Params has been built anew since the start
    readers       \* per reader thread: the operation it performed and its outcome

vars == <<phase, params, constructed, reconstructed, readers>>

---------------------------------------------------------------------------
(* enum Fork: enumerators take the values 0..3 in declaration order. *)
FORK_POISON == 0
FORK_CARRYINGCAP == 1
FORK_LESSHEARTS == 2
FORK_LIFESTEAL == 3

Forks == {FORK_POISON, FORK_CARRYINGCAP, FORK_LESSHEARTS, FORK_LIFESTEAL}

(* The largest `unsigned` height.  TLC's integers end at 2^31 - 1,         *)
(* which stands here for the program's 2^32 - 1: heights are 0..UINT_MAX   *)
(* and wrap around at UINT_MAX, and every height literal lies far below.   *)
UINT_MAX == 2147483647

---------------------------------------------------------------------------
(* Bounds of the model. *)

\* Fork arguments range over 0..MaxForkValue; values above FORK_LIFESTEAL are
\* integers cast to Fork that name no enumerator.
MaxForkValue == 4
\* Heights probed: 0, 1, UINT_MAX and every height within HeightMargin of a
\* height literal of either threshold table.
HeightMargin == 1
\* nPowTargetSpacing ranges over -1..MaxSpacing, nPowTargetTimespan over
\* -MaxTimespan..MaxTimespan.
MaxSpacing == 2
MaxTimespan == 3

ForkValues == 0..MaxForkValue

HeightLiterals ==
    {255000, 500000, 590000, 795000, 190000, 200000, 240000, 301000}

Heights ==
    {0, 1, UINT_MAX}
        \cup {c + d : c \in HeightLiterals, d \in (-HeightMargin)..HeightMargin}

SpacingValues == (-1)..MaxSpacing
TimespanValues == (-MaxTimespan)..MaxTimespan

---------------------------------------------------------------------------
(* Outcomes of a call: a bool, an integer, a pointer (named by the class   *)
(* of its pointee), abort() raised by a failed assert, or a hardware trap. *)
NoOut == [kind |-> "none", b |-> FALSE, n |-> 0, s |-> ""]
BoolOut(v) == [kind |-> "bool", b |-> v, n |-> 0, s |-> ""]
IntOut(v) == [kind |-> "int", b |-> FALSE, n |-> v, s |-> ""]
PtrOut(c) == [kind |-> "ptr", b |-> FALSE, n |-> 0, s |-> c]
AbortOut == [kind |-> "abort", b |-> FALSE, n |-> 0, s |-> ""]
FaultOut == [kind |-> "fault", b |-> FALSE, n |-> 0, s |-> ""]

\* assert (cond): continues when cond holds, abort() otherwise.
c_assert(cond) == IF cond THEN NoOut ELSE AbortOut

\* nHeight - 1 on unsigned.
UnsignedPred(nHeight) == IF nHeight = 0 THEN UINT_MAX ELSE nHeight - 1

---------------------------------------------------------------------------
\* Fault variant: FORK_POISON compared with == instead of >=.
MainNetConsensus_ForkInEffect_eq(type, nHeight) ==
    CASE type = FORK_POISON -> BoolOut(nHeight = 255000)
      [] type = FORK_CARRYINGCAP -> BoolOut(nHeight >= 500000)
      [] type = FORK_LESSHEARTS -> BoolOut(nHeight >= 590000)
      [] type = FORK_LIFESTEAL -> BoolOut(nHeight >= 795000)
      [] OTHER -> c_assert(FALSE)

(* MainNetConsensus::ForkInEffect *)
MainNetConsensus_ForkInEffect(type, nHeight) ==
    CASE type = FORK_POISON -> BoolOut(nHeight >= 255000)
      [] type = FORK_CARRYINGCAP -> BoolOut(nHeight >= 500000)
      [] type = FORK_LESSHEARTS -> BoolOut(nHeight >= 590000)
      [] type = FORK_LIFESTEAL -> BoolOut(nHeight >= 795000)
      [] OTHER -> c_assert(FALSE)

\* Fault variant: the default case returns false instead of asserting.
TestNetConsensus_ForkInEffect_silentDefault(type, nHeight) ==
    CASE type = FORK_POISON -> BoolOut(nHeight >= 190000)
      [] type = FORK_CARRYINGCAP -> BoolOut(nHeight >= 200000)
      [] type = FORK_LESSHEARTS -> BoolOut(nHeight >= 240000)
      [] type = FORK_LIFESTEAL -> BoolOut(nHeight >= 301000)
      [] OTHER -> BoolOut(FALSE)

\* Fault variant: FORK_LIFESTEAL compared with > instead of >=.
TestNetConsensus_ForkInEffect_offByOne(type, nHeight) ==
    CASE type = FORK_POISON -> BoolOut(nHeight >= 190000)
      [] type = FORK_CARRYINGCAP -> BoolOut(nHeight >= 200000)
      [] type = FORK_LESSHEARTS -> BoolOut(nHeight >= 240000)
      [] type = FORK_LIFESTEAL -> BoolOut(nHeight > 301000)
      [] OTHER -> c_assert(FALSE)

(* TestNetConsensus::ForkInEffect *)
TestNetConsensus_ForkInEffect(type, nHeight) ==
    CASE type = FORK_POISON -> BoolOut(nHeight >= 190000)
      [] type = FORK_CARRYINGCAP -> BoolOut(nHeight >= 200000)
      [] type = FORK_LESSHEARTS -> BoolOut(nHeight >= 240000)
      [] type = FORK_LIFESTEAL -> BoolOut(nHeight >= 301000)
      [] OTHER -> c_assert(FALSE)

---------------------------------------------------------------------------
(* The class hierarchy and virtual dispatch of ForkInEffect. *)

NetworkClasses == {"MainNetConsensus", "TestNetConsensus", "RegTestConsensus"}

\* Some other concrete implementation of the ConsensusRules interface: its
\* ForkInEffect is an arbitrary total function carried in the object.
OtherClass == "OtherConsensusRules"

\* Fault variant: RegTestConsensus derived from MainNetConsensus.
BaseClass_regFromMain(c) ==
    CASE c = "RegTestConsensus" -> "MainNetConsensus"
      [] c = "TestNetConsensus" -> "MainNetConsensus"
      [] OTHER -> "ConsensusRules"

\* The base-class clause of each class.
BaseClass(c) ==
    CASE c = "RegTestConsensus" -> "TestNetConsensus"
      [] c = "TestNetConsensus" -> "MainNetConsensus"
      [] OTHER -> "ConsensusRules"

\* The classes whose body defines ForkInEffect.
DefinesForkInEffect(c) ==
    c \in {"MainNetConsensus", "TestNetConsensus", OtherClass}

RECURSIVE FinalOverrider(_)
FinalOverrider(c) ==
    IF DefinesForkInEffect(c) \/ c = "ConsensusRules"
    THEN c
    ELSE FinalOverrider(BaseClass(c))

\* obj->ForkInEffect (type, nHeight), a virtual call.
ForkInEffect(obj, type, nHeight) ==
    LET f == FinalOverrider(obj.cls) IN
    CASE f = "MainNetConsensus" -> MainNetConsensus_ForkInEffect(type, nHeight)
      [] f = "TestNetConsensus" -> TestNetConsensus_ForkInEffect(type, nHeight)
      [] f = OtherClass -> BoolOut(obj.impl[<<type, nHeight>>])
      [] OTHER -> FaultOut   \* no object behind the handle

(* ConsensusRules::IsForkHeight, below.  The result carries the heights at which  *)
(* ForkInEffect was evaluated, in order; && evaluates its right operand    *)
(* only when the left one returned true.                                   *)
\* Fault variant: the nHeight == 0 guard is missing.
IsForkHeight_noGuard(obj, type, nHeight) ==
    LET first == ForkInEffect(obj, type, nHeight) IN
    IF first.kind # "bool" \/ ~first.b
    THEN [out |-> first, calls |-> <<nHeight>>]
    ELSE LET second == ForkInEffect(obj, type, UnsignedPred(nHeight)) IN
         [out |-> IF second.kind = "bool" THEN BoolOut(~second.b) ELSE second,
          calls |-> <<nHeight, UnsignedPred(nHeight)>>]

\* Fault variant: the test of the previous height is missing.
IsForkHeight_noPrevious(obj, type, nHeight) ==
    IF nHeight = 0
    THEN [out |-> BoolOut(FALSE), calls |-> <<>>]
    ELSE [out |-> ForkInEffect(obj, type, nHeight), calls |-> <<nHeight>>]

(* ConsensusRules::IsForkHeight *)
IsForkHeight(obj, type, nHeight) ==
    IF nHeight = 0
    THEN [out |-> BoolOut(FALSE), calls |-> <<>>]
    ELSE LET first == ForkInEffect(obj, type, nHeight) IN
         IF first.kind # "bool" \/ ~first.b
         THEN [out |-> first, calls |-> <<nHeight>>]
         ELSE LET second == ForkInEffect(obj, type, UnsignedPred(nHeight)) IN
              [out |-> IF second.kind = "bool" THEN BoolOut(~second.b) ELSE second,
               calls |-> <<nHeight, UnsignedPred(nHeight)>>]

---------------------------------------------------------------------------
(* struct Params.  The fields read by its methods, one further plain       *)
(* field, and the rules handle; the handle's value is the object it owns.  *)

NullRules == [cls |-> "NULL", impl |-> <<>>]
NetworkRules(c) == [cls |-> c, impl |-> <<>>]

\* Heights at which an OtherConsensusRules object's function is tabulated.
OtherHeights == {0, 1, UINT_MAX}
OtherRules ==
    {[cls |-> OtherClass, impl |-> g] : g \in [Forks \X OtherHeights -> BOOLEAN]}

FieldNames ==
    {"nPowTargetSpacing", "nPowTargetTimespan", "fPowNoRetargeting", "rules"}

\* The struct declares no constructor and no check: every combination of
\* field values can be given to a Params.
ParamsValues(spacings, timespans, ruleObjects) ==
    [nPowTargetSpacing : spacings,
     nPowTargetTimespan : timespans,
     fPowNoRetargeting : BOOLEAN,
     rules : ruleObjects]

\* int64_t a / b for b # 0: the quotient truncated towards zero.
Abs(x) == IF x < 0 THEN -x ELSE x
CppDiv(a, b) ==
    LET q == Abs(a) \div Abs(b) IN
    IF (a < 0) # (b < 0) THEN -q ELSE q

\* Division by zero is undefined: the call traps or yields some value.
DivByZeroOutcomes == {FaultOut} \cup {IntOut(n) : n \in (-1)..1}

\* Fault variant: the operands of the division exchanged.
DifficultyAdjustmentInterval_swapped(p) ==
    IF p.nPowTargetTimespan = 0
    THEN DivByZeroOutcomes
    ELSE {IntOut(CppDiv(p.nPowTargetSpacing, p.nPowTargetTimespan))}

(* Params::DifficultyAdjustmentInterval: the set of possible outcomes. *)
DifficultyAdjustmentInterval(p) ==
    IF p.nPowTargetSpacing = 0
    THEN DivByZeroOutcomes
    ELSE {IntOut(CppDiv(p.nPowTargetTimespan, p.nPowTargetSpacing))}

\* Fault variant: the rule folded into the fork table.
AllowLegacyBlocks_viaForkTable(p, nHeight) ==
    LET o == ForkInEffect(p.rules, FORK_POISON, nHeight) IN
    IF o.kind = "bool" THEN BoolOut(~o.b) ELSE o

(* Params::AllowLegacyBlocks *)
AllowLegacyBlocks(p, nHeight) == BoolOut(nHeight = 0)

(* Reading a field of a Params.  `self` is the object after the read: a    *)
(* read through the const accessors (rules.get(), rules->) leaves it as    *)
(* it was.                                                                 *)
FieldValue(p, field) ==
    CASE field = "nPowTargetSpacing" -> IntOut(p.nPowTargetSpacing)
      [] field = "nPowTargetTimespan" -> IntOut(p.nPowTargetTimespan)
      [] field = "fPowNoRetargeting" -> BoolOut(p.fPowNoRetargeting)
      [] field = "rules" -> PtrOut(p.rules.cls)

\* Fault variant: the handle is read by copying it, and std::auto_ptr's copy
\* takes the pointer away from its source.
FieldRead_autoPtrCopy(p, field) ==
    [out |-> FieldValue(p, field),
     self |-> IF field = "rules" THEN [p EXCEPT !.rules = NullRules] ELSE p]

FieldRead(p, field) == [out |-> FieldValue(p, field), self |-> p]

---------------------------------------------------------------------------
(* Reader threads. *)

IdleReader ==
    [pc |-> "idle", op |-> "none", type |-> 0, nHeight |-> 0, field |-> "",
     out |-> NoOut, calls |-> <<>>]

Returned(o, fork, height, fld, result, evaluated) ==
    [pc |-> "returned", op |-> o, type |-> fork, nHeight |-> height,
     field |-> fld, out |-> result, calls |-> evaluated]

PhaseAfter(out) ==
    CASE out.kind = "abort" -> "aborted"
      [] out.kind = "fault" -> "faulted"
      [] OTHER -> "running"

CanCall(t) == phase = "running" /\ readers[t].pc = "idle"

\* params.rules->ForkInEffect (type, nHeight)
CallForkInEffect(t, F, H) ==
    /\ CanCall(t)
    /\ \E type \in F, nHeight \in H :
         LET o == ForkInEffect(params.rules, type, nHeight) IN
         /\ readers' = [readers EXCEPT ![t] =
                Returned("ForkInEffect", type, nHeight, "", o, <<nHeight>>)]
         /\ phase' = PhaseAfter(o)
    /\ UNCHANGED <<params, constructed, reconstructed>>

\* params.rules->IsForkHeight (type, nHeight)
CallIsForkHeight(t, F, H) ==
    /\ CanCall(t)
    /\ \E type \in F, nHeight \in H :
         LET r == IsForkHeight(params.rules, type, nHeight) IN
         /\ readers' = [readers EXCEPT ![t] =
                Returned("IsForkHeight", type, nHeight, "", r.out, r.calls)]
         /\ phase' = PhaseAfter(r.out)
    /\ UNCHANGED <<params, constructed, reconstructed>>

\* params.DifficultyAdjustmentInterval ()
CallDifficultyAdjustmentInterval(t) ==
    /\ CanCall(t)
    /\ \E o \in DifficultyAdjustmentInterval(params) :
         /\ readers' = [readers EXCEPT ![t] =
                Returned("DifficultyAdjustmentInterval", 0, 0, "", o, <<>>)]
         /\ phase' = PhaseAfter(o)
    /\ UNCHANGED <<params, constructed, reconstructed>>

\* params.AllowLegacyBlocks (nHeight)
CallAllowLegacyBlocks(t, H) ==
    /\ CanCall(t)
    /\ \E nHeight \in H :
         LET o == AllowLegacyBlocks(params, nHeight) IN
         /\ readers' = [readers EXCEPT ![t] =
                Returned("AllowLegacyBlocks", 0, nHeight, "", o, <<>>)]
         /\ phase' = PhaseAfter(o)
    /\ UNCHANGED <<params, constructed, reconstructed>>

\* A direct read of one field.
ReadField(t) ==
    /\ CanCall(t)
    /\ \E field \in FieldNames :
         LET r == FieldRead(params, field) IN
         /\ readers' = [readers EXCEPT ![t] =
                Returned("ReadField", 0, 0, field, r.out, <<>>)]
         /\ params' = r.self
    /\ UNCHANGED <<phase, constructed, reconstructed>>

\* The reader drops the result and is ready for its next call.
Resume(t) ==
    /\ phase = "running"
    /\ readers[t].pc = "returned"
    /\ readers' = [readers EXCEPT ![t] = IdleReader]
    /\ UNCHANGED <<phase, params, constructed, reconstructed>>

\* Network selection builds a Params anew (a unit test selecting another
\* network); it runs single-threaded, with no reader at work.
Reconstruct(values) ==
    /\ phase = "running"
    /\ \A t \in DOMAIN readers : readers[t].pc = "idle"
    /\ \E p \in values :
         /\ p # params
         /\ params' = p
         /\ constructed' = p
    /\ reconstructed' = TRUE
    /\ UNCHANGED <<phase, readers>>

---------------------------------------------------------------------------
(* Spec: one caller, every operation, over all the probed heights, with    *)
(* reconstruction.                                                         *)

NetworkObjects == {NetworkRules(c) : c \in NetworkClasses}
AllParams == ParamsValues(SpacingValues, TimespanValues, NetworkObjects)

InitWith(values, threads) ==
    /\ phase = "running"
    /\ params \in values
    /\ constructed = params
    /\ reconstructed = FALSE
    /\ readers = [t \in threads |-> IdleReader]

Init == InitWith(AllParams, {1})

Next ==
    \/ CallForkInEffect(1, ForkValues, Heights)
    \/ CallIsForkHeight(1, ForkValues, Heights)
    \/ CallDifficultyAdjustmentInterval(1)
    \/ CallAllowLegacyBlocks(1, Heights)
    \/ ReadField(1)
    \/ Resume(1)
    \/ Reconstruct(AllParams)

Spec == Init /\ [][Next]_vars

(* SpecReaders: two reader threads interleave their operations on one      *)
(* Params, which is constructed before they start.                         *)

Readers == {1, 2}
ReaderHeights == {0, 499999, 500000, UINT_MAX}
ReaderParams == ParamsValues({1, MaxSpacing}, {MaxTimespan}, NetworkObjects)

InitReaders == InitWith(ReaderParams, Readers)

NextReaders ==
    \E t \in Readers :
        \/ CallForkInEffect(t, ForkValues, ReaderHeights)
        \/ CallIsForkHeight(t, ForkValues, ReaderHeights)
        \/ CallDifficultyAdjustmentInterval(t)
        \/ CallAllowLegacyBlocks(t, ReaderHeights)
        \/ ReadField(t)
        \/ Resume(t)

SpecReaders == InitReaders /\ [][NextReaders]_vars

(* SpecIface: the rules object is one of the network classes or any other  *)
(* implementation of the ConsensusRules interface.                         *)

IfaceParams == ParamsValues({1}, {1}, NetworkObjects \cup OtherRules)

InitIface ==
    /\ InitWith(IfaceParams, {1})
    /\ params.fPowNoRetargeting = FALSE

NextIface ==
    \/ CallForkInEffect(1, Forks, OtherHeights)
    \/ CallIsForkHeight(1, Forks, {0, 1})
    \/ Resume(1)

SpecIface == InitIface /\ [][NextIface]_vars

---------------------------------------------------------------------------
(* The claims. *)

ReturnedFrom(r, o) == r.pc = "returned" /\ r.op = o
ReaderStates == {readers[t] : t \in DOMAIN readers}

\* The threshold table the specification states for each variant; Reg is
\* stated to take Test's.
StatedThreshold(cls, f) ==
    IF cls = "MainNetConsensus"
    THEN CASE f = FORK_POISON -> 255000
           [] f = FORK_CARRYINGCAP -> 500000
           [] f = FORK_LESSHEARTS -> 590000
           [] f = FORK_LIFESTEAL -> 795000
    ELSE CASE f = FORK_POISON -> 190000
           [] f = FORK_CARRYINGCAP -> 200000
           [] f = FORK_LESSHEARTS -> 240000
           [] f = FORK_LIFESTEAL -> 301000

\* C1: monotonicity.  Whenever ForkInEffect (f, h1) has returned true for an
\* enumerated fork f on the node's rules object, ForkInEffect (f, h2) is true
\* at every greater height h2, for each of the three network variants.
C1_Monotonic ==
    \A r \in ReaderStates :
        (ReturnedFrom(r, "ForkInEffect") /\ r.type \in Forks /\ r.out = BoolOut(TRUE))
            => \A h2 \in Heights :
                   h2 > r.nHeight
                       => ForkInEffect(params.rules, r.type, h2) = BoolOut(TRUE)

C1_Witness ==
    \E r \in ReaderStates :
        /\ ReturnedFrom(r, "ForkInEffect") /\ r.type \in Forks
        /\ r.out = BoolOut(TRUE)
        /\ r.nHeight \in HeightLiterals
        /\ \E h2 \in Heights : h2 > r.nHeight

\* C2: activation-height exactness.  For every variant and every enumerated
\* fork, whose threshold T is greater than 0, IsForkHeight (f, h) returns true
\* when h = T and false at every other height.
C2_ExactActivationHeight ==
    \A r \in ReaderStates :
        (/\ ReturnedFrom(r, "IsForkHeight")
         /\ r.type \in Forks
         /\ StatedThreshold(params.rules.cls, r.type) > 0)
            => r.out = BoolOut(r.nHeight = StatedThreshold(params.rules.cls, r.type))

C2_Witness ==
    \E r \in ReaderStates :
        /\ ReturnedFrom(r, "IsForkHeight") /\ r.type \in Forks
        /\ r.out = BoolOut(FALSE)
        /\ r.nHeight > StatedThreshold(params.rules.cls, r.type)

\* C3: a Fork value outside the four enumerators makes ForkInEffect, at any
\* height and in any variant, end in abort and return no boolean; so does
\* IsForkHeight at every height >= 1.
C3_UnrecognizedForkAborts ==
    \A r \in ReaderStates :
        (/\ r.pc = "returned"
         /\ r.type \notin Forks
         /\ \/ r.op = "ForkInEffect"
            \/ r.op = "IsForkHeight" /\ r.nHeight >= 1)
            => r.out.kind = "abort" /\ phase = "aborted"

C3_Witness ==
    \E r \in ReaderStates :
        /\ ReturnedFrom(r, "IsForkHeight") /\ r.type \notin Forks /\ r.nHeight >= 1
        /\ params.rules.cls = "RegTestConsensus"
        /\ phase = "aborted"

\* C4: inheritance.  On a RegTestConsensus object, ForkInEffect and
\* IsForkHeight return what TestNetConsensus returns for the same arguments.
C4_RegEqualsTest ==
    \A r \in ReaderStates :
        params.rules.cls = "RegTestConsensus"
            => /\ ReturnedFrom(r, "ForkInEffect")
                    => r.out = TestNetConsensus_ForkInEffect(r.type, r.nHeight)
               /\ ReturnedFrom(r, "IsForkHeight")
                    => r.out = IsForkHeight(NetworkRules("TestNetConsensus"),
                                            r.type, r.nHeight).out

C4_Witness ==
    \E r \in ReaderStates :
        /\ params.rules.cls = "RegTestConsensus"
        /\ ReturnedFrom(r, "ForkInEffect")
        /\ r.out = BoolOut(TRUE)
        /\ MainNetConsensus_ForkInEffect(r.type, r.nHeight) = BoolOut(FALSE)

\* C5: height 0.  IsForkHeight (f, 0) returns false for every enumerated fork
\* and every implementation of the rules interface, also one whose fork is in
\* effect at height 0, and it does not evaluate ForkInEffect at the height
\* 0 - 1 wraps to.
C5_HeightZeroNeverActivation ==
    \A r \in ReaderStates :
        (ReturnedFrom(r, "IsForkHeight") /\ r.nHeight = 0)
            => /\ r.out = BoolOut(FALSE)
               /\ \A i \in DOMAIN r.calls : r.calls[i] # UnsignedPred(0)

C5_Witness ==
    \E r \in ReaderStates :
        /\ ReturnedFrom(r, "IsForkHeight") /\ r.nHeight = 0
        /\ ForkInEffect(params.rules, r.type, 0) = BoolOut(TRUE)
        /\ ForkInEffect(params.rules, r.type, UINT_MAX) = BoolOut(FALSE)

\* C6: construction rejects a zero target spacing: no Params in use has
\* nPowTargetSpacing = 0, and DifficultyAdjustmentInterval never divides by 0.
C6_ZeroSpacingRejected ==
    /\ params.nPowTargetSpacing # 0
    /\ \A r \in ReaderStates :
           ReturnedFrom(r, "DifficultyAdjustmentInterval")
               => params.nPowTargetSpacing # 0

\* C7: read-only after construction.  Whatever the readers do and however
\* their operations interleave, every field of the Params has the value it
\* was constructed with, the rules handle still holds its policy object, and
\* every field a reader has read had the constructed value.
C7_ReadOnlyAfterConstruction ==
    /\ params = constructed
    /\ params.rules.cls \in NetworkClasses
    /\ \A r \in ReaderStates :
           ReturnedFrom(r, "ReadField") => r.out = FieldValue(constructed, r.field)

C7_Witness ==
    /\ Cardinality(DOMAIN readers) > 1
    /\ \E r \in ReaderStates : ReturnedFrom(r, "ReadField") /\ r.field = "rules"
    /\ \E r \in ReaderStates : ReturnedFrom(r, "IsForkHeight") /\ r.out = BoolOut(TRUE)

\* C8: ForkInEffect (f, h) is true exactly when h is at or above the stated
\* threshold of f in the variant, a boolean for every enumerated fork; on Main
\* 500000 is the activation height of FORK_CARRYINGCAP.
C8_StatedThresholds ==
    \A r \in ReaderStates :
        /\ (ReturnedFrom(r, "ForkInEffect") /\ r.type \in Forks)
               => r.out = BoolOut(r.nHeight >= StatedThreshold(params.rules.cls, r.type))
        /\ (/\ ReturnedFrom(r, "IsForkHeight")
            /\ params.rules.cls = "MainNetConsensus"
            /\ r.type = FORK_CARRYINGCAP
            /\ r.nHeight = 500000)
               => r.out = BoolOut(TRUE)

C8_Witness ==
    \E r \in ReaderStates :
        /\ params.rules.cls = "TestNetConsensus"
        /\ ReturnedFrom(r, "ForkInEffect")
        /\ r.type = FORK_LIFESTEAL /\ r.nHeight = 301000
        /\ r.out = BoolOut(TRUE)

\* q is a / b truncated towards zero.
IsTruncatedQuotient(q, a, b) ==
    LET rem == a - q * b IN
    /\ Abs(rem) < Abs(b)
    /\ rem = 0 \/ (rem < 0) = (a < 0)

\* C9: with a nonzero spacing, DifficultyAdjustmentInterval returns the
\* integer quotient nPowTargetTimespan / nPowTargetSpacing of the values the
\* Params holds now, also after the Params was built anew with other values.
C9_IntervalIsQuotient ==
    \A r \in ReaderStates :
        (ReturnedFrom(r, "DifficultyAdjustmentInterval") /\ params.nPowTargetSpacing # 0)
            => /\ r.out.kind = "int"
               /\ IsTruncatedQuotient(r.out.n, params.nPowTargetTimespan,
                                      params.nPowTargetSpacing)

C9_Witness ==
    \E r \in ReaderStates :
        /\ ReturnedFrom(r, "DifficultyAdjustmentInterval")
        /\ reconstructed
        /\ params.nPowTargetSpacing = 2 /\ params.nPowTargetTimespan = -3
        /\ r.out = IntOut(-1)

\* C10: AllowLegacyBlocks (0) is true and AllowLegacyBlocks (h) is false for
\* every h >= 1, whatever rules object the Params holds.
C10_LegacyOnlyAtGenesis ==
    \A r \in ReaderStates :
        ReturnedFrom(r, "AllowLegacyBlocks") => r.out = BoolOut(r.nHeight = 0)

C10_Witness ==
    /\ \E r \in ReaderStates :
           ReturnedFrom(r, "AllowLegacyBlocks") /\ r.nHeight = 1 /\ r.out = BoolOut(FALSE)
    /\ ForkInEffect(params.rules, FORK_POISON, 1) = BoolOut(FALSE)

====
